---- MODULE Spec2Model ----
(***************************************************************************)
(* Hall-pass ledger of src/app.py: the pass log worksheet, the quarter     *)
(* calendar, the sign-out checks, sign-in and the stale-pass reclaimer.    *)
(*                                                                         *)
(* Time is the local wall clock on a grid of ticks; requests handled at    *)
(* one clock reading are simultaneous.  One tick is longer than the 20 s   *)
(* duplicate window and at most the 30 min stale budget, which is less     *)
(* than two ticks: the window is 0 ticks and the budget 1 tick.  The       *)
(* quarter table is scaled to the same grid, gaps between quarters kept.   *)
(*                                                                         *)
(* The sign-out route is modelled along its evident control flow: the      *)
(* write at lines 507-533 is the tail of signout() (as written it is       *)
(* dedented out of the function, which Python rejects), and the call at    *)
(* line 455 reaches the checks of lines 25-64 (as written it passes a      *)
(* keyword block_on_no_quarter that signout_checks does not declare).      *)
(***************************************************************************)
EXTENDS Integers, Sequences, FiniteSets, TLC

\* ---------------------------------------------------------------- bounds
MaxClock == 3
MaxRows == 3

\* ------------------------------------------------------- configuration
HALL_LIMIT == 2
MAX_QUARTER_PASSES == 2
WINDOW_SECONDS == 0
MAX_MINUTES == 1

\* Quarter table, end exclusive.
QUARTERS ==
  << [name |-> "Q1", start |-> 1, end |-> 3],
     [name |-> "Q2", start |-> 4, end |-> 7] >>

\* ------------------------------------------------------------ cell values
\* A time cell holds a stamp (a tick >= 0), the empty string, or text that
\* strptime rejects.
EMPTY == -1
MALFORMED == -2
\* The text "nan" or "None" in a cell, in any case.
NAN_TEXT == -4
\* Python None, and datetime.max.
NONE == -3
DT_MAX == 9999

\* ------------------------------------------------------------ strings
\* str.strip() on the strings of the model.
Strip(s) ==
  CASE s = " Dana " -> "Dana"
    [] OTHER -> s

\* str.lower() on the strings of the model.
Lower(s) ==
  CASE s = "Dana" -> "dana"
    [] s = "Lee" -> "lee"
    [] s = "Bo" -> "bo"
    [] s = "Cy" -> "cy"
    [] s = "Orr" -> "orr"
    [] s = " Dana " -> " dana "
    [] OTHER -> s

safe_str(v) == Strip(v)

\* now_str(): the clock formatted with DT_FMT.
now_str(t) == t

\* datetime.strptime(cell, DT_FMT) succeeds.
Parses(cell) == cell >= 0

\* ------------------------------------------------------------ PIN and roster
\* A PIN is a string, modelled as the sequence of its characters.
IsDigit(ch) == ch \in {"0", "1", "2", "3", "4", "5", "6", "7", "8", "9"}

\* str.strip() on a sequence of characters.
StripChars(s) ==
  LET solid == {i \in 1..Len(s) : s[i] # " "} IN
  IF solid = {} THEN <<>>
  ELSE SubSeq(s, CHOOSE i \in solid : \A j \in solid : i <= j,
                 CHOOSE i \in solid : \A j \in solid : i >= j)

\* normalize_pin: the digits only, the last four, zero-padded on the left.
normalize_pin(v) ==
  LET digits == SelectSeq(StripChars(v), IsDigit)
      four == IF Len(digits) > 4 THEN SubSeq(digits, Len(digits) - 3, Len(digits)) ELSE digits
  IN IF digits = <<>> THEN <<>>
     ELSE [i \in 1..4 |-> IF i <= 4 - Len(four) THEN "0" ELSE four[i - (4 - Len(four))]]

\* str.upper() on the Active cells of the model.
Upper(s) == IF s = "n" THEN "N" ELSE s

\* load_roster_from_sheet on the rows of the Roster tab: the row that gives
\* the dict entry of key (fn, ln), the last one with that key, or 0.
RosterKeyRows(tab, fn, ln) ==
  {i \in 1..Len(tab) :
     /\ Lower(safe_str(tab[i].fn)) = fn /\ Lower(safe_str(tab[i].ln)) = ln
     /\ fn # "" /\ ln # "" /\ normalize_pin(tab[i].pin) # <<>>}

\* The None of dict.get, shaped as an entry (a loaded entry has a PIN).
NoEntry == [pin |-> <<>>, active |-> FALSE]

\* get_roster().get((fn, ln)): the entry {"pin", "active"}, or None.
roster_get(tab, fn, ln) ==
  LET rows == RosterKeyRows(tab, fn, ln) IN
  IF rows = {} THEN NoEntry
  ELSE LET i == CHOOSE r \in rows : \A q \in rows : q <= r IN
       [pin |-> normalize_pin(tab[i].pin),
        active |-> Upper(safe_str(IF tab[i].active = "" THEN "Y" ELSE tab[i].active)) # "N"]

\* Mutant: the Active mark is not looked at.
check_student_pin_IgnoresActive(e, first, last, pin) ==
  IF e.ENABLE_STUDENT_PIN = 0 THEN TRUE
  ELSE LET rec == roster_get(e.roster, Lower(safe_str(first)), Lower(safe_str(last)))
           entered == normalize_pin(pin)
       IN rec # NoEntry /\ entered # <<>> /\ entered = rec.pin

check_student_pin(e, first, last, pin) ==
  IF e.ENABLE_STUDENT_PIN = 0 THEN TRUE
  ELSE LET rec == roster_get(e.roster, Lower(safe_str(first)), Lower(safe_str(last)))
           entered == normalize_pin(pin)
       IN rec # NoEntry /\ rec.active /\ entered # <<>> /\ entered = rec.pin

\* The deployment as shipped: the PIN feature off, no roster rows.
DefaultEnv == [ENABLE_STUDENT_PIN |-> 0, roster |-> <<>>]

\* ------------------------------------------------------------ calendar
Unknown == [name |-> "Unknown", start |-> NONE, end |-> NONE]

RECURSIVE FirstQuarterAt(_, _)
FirstQuarterAt(i, t) ==
  IF i > Len(QUARTERS) THEN 0
  ELSE IF QUARTERS[i].start <= t /\ t < QUARTERS[i].end THEN i
  ELSE FirstQuarterAt(i + 1, t)

\* Mutant: no quarter is reported outside the configured intervals.
active_quarter_dt_NoClamp(t) ==
  LET i == FirstQuarterAt(1, t) IN
  IF i # 0 THEN QUARTERS[i] ELSE Unknown

active_quarter_dt(t) ==
  LET i == FirstQuarterAt(1, t) IN
  IF i # 0 THEN QUARTERS[i]
  ELSE IF Len(QUARTERS) > 0 /\ t >= QUARTERS[Len(QUARTERS)].end
    THEN [name |-> QUARTERS[Len(QUARTERS)].name,
          start |-> QUARTERS[Len(QUARTERS)].start,
          end |-> DT_MAX]
  ELSE IF Len(QUARTERS) > 0 /\ t < QUARTERS[1].start
    THEN QUARTERS[1]
  ELSE Unknown

\* Mutant: the end of the period is inclusive.
within_period_EndInclusive(ts_str, start_dt, end_dt) ==
  IF ~Parses(ts_str) THEN FALSE
  ELSE start_dt # NONE /\ end_dt # NONE /\ start_dt <= ts_str /\ ts_str <= end_dt

within_period(ts_str, start_dt, end_dt) ==
  IF ~Parses(ts_str) THEN FALSE
  ELSE start_dt # NONE /\ end_dt # NONE /\ start_dt <= ts_str /\ ts_str < end_dt

\* ------------------------------------------------------------ ledger
\* A row of the pass log: names, Time Out, Time In (the descriptive
\* columns Period, Teacher, Reason are carried as one cell).
SameStudent(row, first, last) ==
  /\ Lower(safe_str(row.fn)) = Lower(safe_str(first))
  /\ Lower(safe_str(row.ln)) = Lower(safe_str(last))

\* Mutant: the emptiness test on Time In lost its negation.
CurrentlyOut_TimeInSet(passes) ==
  Cardinality({i \in 1..Len(passes) : passes[i].tin # EMPTY})

\* Mutant: every row counts as out.
CurrentlyOut_AllRows(passes) == Len(passes)

\* len(currently_out) of signout_checks.
CurrentlyOut(passes) ==
  Cardinality({i \in 1..Len(passes) : passes[i].tin = EMPTY})

RECURSIVE CountFrom(_, _, _, _, _)
CountFrom(passes, i, first, last, q) ==
  IF i > Len(passes) THEN 0
  ELSE (IF SameStudent(passes[i], first, last)
           /\ within_period(passes[i].tout, q.start, q.end)
        THEN 1 ELSE 0) + CountFrom(passes, i + 1, first, last, q)

\* Mutant: only the passes still open are counted.
passes_this_quarter_OpenOnly(passes, first, last, t) ==
  LET q == active_quarter_dt(t) IN
  IF q.start = NONE \/ q.end = NONE THEN 0
  ELSE CountFrom(SelectSeq(passes, LAMBDA row : row.tin = EMPTY), 1, first, last, q)

passes_this_quarter(passes, first, last, t) ==
  LET q == active_quarter_dt(t) IN
  IF q.start = NONE \/ q.end = NONE THEN 0
  ELSE CountFrom(passes, 1, first, last, q)

\* Mutant: the names are compared as typed.
student_has_open_pass_CaseSensitive(passes, first, last) ==
  \E i \in 1..Len(passes) :
    /\ safe_str(passes[i].fn) = safe_str(first)
    /\ safe_str(passes[i].ln) = safe_str(last)
    /\ passes[i].tout # EMPTY
    /\ passes[i].tin = EMPTY

\* Mutant: the emptiness test on Time In lost its negation.
student_has_open_pass_TimeInSet(passes, first, last) ==
  \E i \in 1..Len(passes) :
    /\ SameStudent(passes[i], first, last)
    /\ passes[i].tout # EMPTY
    /\ passes[i].tin # EMPTY

student_has_open_pass(passes, first, last) ==
  \E i \in 1..Len(passes) :
    /\ SameStudent(passes[i], first, last)
    /\ passes[i].tout # EMPTY
    /\ passes[i].tin = EMPTY

\* Mutant: the window comparison is strict.
recent_signout_exists_Strict(passes, first, last, t) ==
  \E i \in 1..Len(passes) :
    /\ SameStudent(passes[i], first, last)
    /\ passes[i].tout # EMPTY
    /\ Parses(passes[i].tout)
    /\ t - passes[i].tout < WINDOW_SECONDS

recent_signout_exists(passes, first, last, t) ==
  \E i \in 1..Len(passes) :
    /\ SameStudent(passes[i], first, last)
    /\ passes[i].tout # EMPTY
    /\ Parses(passes[i].tout)
    /\ t - passes[i].tout <= WINDOW_SECONDS

\* Mutant: a day without a quarter does not block.
NoQuarterIssue_NotBlocking(t) == <<>>

\* The issue codes of signout_checks, in the order they are appended.
NoQuarterIssue(t) ==
  LET q == active_quarter_dt(t) IN
  IF q.name = "Unknown" \/ q.start = NONE \/ q.end = NONE
  THEN <<"no_quarter">> ELSE <<>>

\* Mutant: the capacity comparison is strict.
CapacityIssue_OffByOne(passes) ==
  IF CurrentlyOut(passes) > HALL_LIMIT THEN <<"capacity">> ELSE <<>>

CapacityIssue(passes) ==
  IF CurrentlyOut(passes) >= HALL_LIMIT THEN <<"capacity">> ELSE <<>>

\* Mutant: the quarterly comparison is strict.
LimitIssue_OffByOne(passes, first, last, t) ==
  IF active_quarter_dt(t).name # "Unknown"
     /\ passes_this_quarter(passes, first, last, t) > MAX_QUARTER_PASSES
  THEN <<"limit_reached">> ELSE <<>>

LimitIssue(passes, first, last, t) ==
  IF active_quarter_dt(t).name # "Unknown"
     /\ passes_this_quarter(passes, first, last, t) >= MAX_QUARTER_PASSES
  THEN <<"limit_reached">> ELSE <<>>

signout_checks(passes, first, last, t) ==
  NoQuarterIssue(t) \o CapacityIssue(passes) \o LimitIssue(passes, first, last, t)

\* Mutant: the duplicate protection runs before the guard rails.
SignoutCode_OpenPassFirst(passes, first_name, last_name, t) ==
  LET problems == signout_checks(passes, first_name, last_name, t) IN
  IF first_name = "" \/ last_name = "" THEN "name_required"
  ELSE IF student_has_open_pass(passes, first_name, last_name) THEN "already_out"
  ELSE IF problems # <<>> THEN Head(problems)
  ELSE IF recent_signout_exists(passes, first_name, last_name, t)
    THEN "duplicate_click"
  ELSE "ok"

\* The outcome code of the sign-out route before the write; "ok" when every
\* check passes.
SignoutCode(passes, first_name, last_name, t) ==
  LET problems == signout_checks(passes, first_name, last_name, t) IN
  IF first_name = "" \/ last_name = "" THEN "name_required"
  ELSE IF problems # <<>> THEN Head(problems)
  ELSE IF student_has_open_pass(passes, first_name, last_name) THEN "already_out"
  ELSE IF recent_signout_exists(passes, first_name, last_name, t)
    THEN "duplicate_click"
  ELSE "ok"

StatusOf(code) ==
  CASE code = "capacity" -> 429
    [] code = "limit_reached" -> 403
    [] code = "no_quarter" -> 409
    [] code = "already_out" -> 409
    [] code = "duplicate_click" -> 202
    [] code = "ok" -> 302
    [] OTHER -> 400

\* Mutant: Time Out is stamped from a clock that runs ahead of the one Time
\* In is stamped from.
Entry_ClockAhead(first_name, last_name, time_out) ==
  [fn |-> first_name, ln |-> last_name, tout |-> time_out + 1, tin |-> EMPTY]

\* The entry written by the sign-out route.
Entry(first_name, last_name, time_out) ==
  [fn |-> first_name, ln |-> last_name, tout |-> time_out, tin |-> EMPTY]

\* Mutant: the append is refused while the hall is full.
write_pass_IfRoom(sheet, entry) ==
  IF CurrentlyOut(sheet) >= HALL_LIMIT THEN sheet ELSE Append(sheet, entry)

\* sheet.append_row
write_pass(sheet, entry) == Append(sheet, entry)

\* Mutant: the cell written is Time Out.
update_cell_TimeOutColumn(rows, r, v) == [rows EXCEPT ![r - 1].tout = v]

\* sheet.update_cell(r, "Time In", v): r is the sheet row, row 1 the header.
update_cell(sheet, r, v) == [sheet EXCEPT ![r - 1].tin = v]

\* ------------------------------------------------------------ sign-in
\* Mutant: the test on Time In is missing.
is_time_in_empty_Always(row) == TRUE

\* A Time In cell that sign-in treats as empty: the empty string, "none" or
\* "nan".
is_time_in_empty(row) == row.tin = EMPTY \/ row.tin = NAN_TEXT

\* The sheet row sign-in updates: the first matching open record of the
\* scan `for idx, row in enumerate(records, start=2)`; 0 when none matches.
RECURSIVE SigninScan(_, _, _, _)
SigninScan(records, i, first, last) ==
  IF i > Len(records) THEN 0
  ELSE IF /\ Lower(Strip(records[i].fn)) = Lower(Strip(first))
          /\ Lower(Strip(records[i].ln)) = Lower(Strip(last))
          /\ is_time_in_empty(records[i])
    THEN i + 1
  ELSE SigninScan(records, i + 1, first, last)

SigninTarget(records, first, last) == SigninScan(records, 1, first, last)

\* ------------------------------------------------------------ reclaimer
\* Mutant: a pass is closed as soon as it reaches the budget.
IsStale_AtBudget(row, t) ==
  /\ row.tout # EMPTY
  /\ row.tin = EMPTY
  /\ Parses(row.tout)
  /\ t - row.tout >= MAX_MINUTES

\* Mutant: the test on Time In is missing.
IsStale_IgnoresTimeIn(row, t) ==
  /\ row.tout # EMPTY
  /\ Parses(row.tout)
  /\ t - row.tout > MAX_MINUTES

\* Mutant: the comparison with the budget is turned round.
IsStale_Reversed(row, t) ==
  /\ row.tout # EMPTY
  /\ row.tin = EMPTY
  /\ Parses(row.tout)
  /\ t - row.tout < MAX_MINUTES

\* The test auto_close_stale_passes applies to one row of its snapshot at
\* clock t.
IsStale(row, t) ==
  /\ row.tout # EMPTY
  /\ row.tin = EMPTY
  /\ Parses(row.tout)
  /\ t - row.tout > MAX_MINUTES

\* The sheet rows one run closes when the whole scan happens at clock t.
StaleRows(rows, t) == {i + 1 : i \in {j \in 1..Len(rows) : IsStale(rows[j], t)}}

\* Mutant: a Time Out that does not parse ends the scan.
AutoClose_StopsAtMalformed(sheet, t) ==
  LET bad == {i \in 1..Len(sheet) :
                sheet[i].tout # EMPTY /\ sheet[i].tin = EMPTY /\ ~Parses(sheet[i].tout)}
  IN [i \in 1..Len(sheet) |->
        IF (i + 1) \in StaleRows(sheet, t) /\ \A b \in bad : i < b
        THEN [sheet[i] EXCEPT !.tin = now_str(t)] ELSE sheet[i]]

AutoClose(sheet, t) ==
  [i \in 1..Len(sheet) |->
     IF (i + 1) \in StaleRows(sheet, t)
     THEN [sheet[i] EXCEPT !.tin = now_str(t)] ELSE sheet[i]]

\* ------------------------------------------------------------ inputs
Students == { <<"Dana", "Lee">>, <<"Bo", "Lee">>, <<"Cy", "Orr">> }

\* Sign-out form values as posted, before the route strips them.
Forms == Students \cup { <<" Dana ", "Lee">>, <<"", "Lee">> }

\* Names as typed into the sign-in form.
SignInNames == { <<"dana", "lee">>, <<"Bo", "Lee">>, <<"Cy", "Orr">> }

\* ------------------------------------------------------------ state
VARIABLES
  sheet,   \* the data rows of the pass log, in insertion order
  now,     \* the local clock
  resp,    \* the response to the last request; once the clock moves only its
           \* route is kept
  req,     \* the request each worker is handling, with the handler's locals
  served,  \* how many requests the workers have taken up
  env      \* the deployment: the ENABLE_STUDENT_PIN flag and the Roster tab

vars == <<sheet, now, resp, req, served, env>>

\* Requests taken up by the workers in one behaviour.
MaxRequests == 3

\* The two web workers that handle requests side by side.
Workers == {1, 2}

\* pc: the sheet access the handler is about to make ("idle": no request);
\* first_name, last_name, time_out, qname, problems: the locals of signout and
\* signout_checks; rows, r: the snapshot and the sheet row of the loop of
\* auto_close_stale_passes; idx: the sheet row found by signin; closed: the
\* counter of auto_close_stale_passes.
Idle == [pc |-> "idle", first_name |-> "", last_name |-> "", time_out |-> EMPTY,
         qname |-> "", problems |-> <<>>, rows |-> <<>>, r |-> 0, idx |-> 0,
         closed |-> 0]

\* The workers are alike: a new request goes to the free worker of lowest
\* number.
Takes(w) ==
  /\ req[w].pc = "idle"
  /\ \A v \in Workers : v < w => req[v].pc # "idle"

\* op: the route of the last request; code, status: its outcome; row: the sheet
\* row it wrote; closed: the return value of auto_close_stale_passes; prev: the
\* return value of the run before it when that run was the previous request
\* and the clock has not moved since, else -1; used: used_passes as rendered;
\* quarter: current_quarter as rendered.  Kept for the requests handled one at
\* a time: waiting: with an accepted sign-in, the student whose sign-out was
\* the request before it and was refused for capacity, else <<>>; retry: with
\* a sign-out, that it is this waiting student's and follows that sign-in.
\* fault: the kind of store call ("read", "write") that raised during the
\* request, "" when none did; pin: the PIN posted with a sign-out, a string
\* of characters.
NoResp == [op |-> "none", fn |-> "", ln |-> "", code |-> "", status |-> 0,
           row |-> 0, closed |-> 0, prev |-> -1, used |-> -1, quarter |-> "",
           waiting |-> <<>>, retry |-> FALSE, fault |-> "", pin |-> <<>>]

\* The pass log is empty and the first quarter begins.
Init ==
  /\ sheet = <<>>
  /\ now = QUARTERS[1].start
  /\ resp = NoResp
  /\ req = [w \in Workers |-> Idle]
  /\ served = 0
  /\ env = DefaultEnv

Tick ==
  /\ now < MaxClock
  /\ now' = now + 1
  /\ resp' = [NoResp EXCEPT !.op = resp.op]
  /\ UNCHANGED <<sheet, req, served, env>>

\* POST /signout, run to completion at one clock reading.
SignOut(form) ==
  LET first_name == Strip(form[1])
      last_name == Strip(form[2])
      time_out == now_str(now)
      code == SignoutCode(sheet, first_name, last_name, now)
  IN /\ code = "ok" => Len(sheet) < MaxRows
     /\ sheet' = IF code = "ok"
                 THEN write_pass(sheet, Entry(first_name, last_name, time_out))
                 ELSE sheet
     /\ resp' = [NoResp EXCEPT !.op = "signout", !.fn = first_name,
                 !.ln = last_name, !.code = code, !.status = StatusOf(code),
                 !.row = IF code = "ok" THEN Len(sheet) + 2 ELSE 0,
                 !.retry = /\ resp.op = "signin" /\ resp.code = "ok"
                           /\ resp.waiting = <<first_name, last_name>>]
     /\ UNCHANGED <<now, req, served, env>>

\* POST /signin, run to completion at one clock reading.
SignIn(student) ==
  LET first_name == student[1]
      last_name == student[2]
      idx == SigninTarget(sheet, first_name, last_name)
  IN /\ sheet' = IF idx # 0 THEN update_cell(sheet, idx, now_str(now)) ELSE sheet
     /\ resp' = [NoResp EXCEPT !.op = "signin", !.fn = first_name,
                 !.ln = last_name,
                 !.code = IF idx # 0 THEN "ok" ELSE "not_found",
                 !.status = IF idx # 0 THEN 200 ELSE 404,
                 !.row = idx,
                 !.waiting = IF idx # 0 /\ resp.op = "signout" /\ resp.code = "capacity"
                             THEN <<resp.fn, resp.ln>> ELSE <<>>]
     /\ UNCHANGED <<now, req, served, env>>

\* auto_close_stale_passes(), run to completion at one clock reading (the
\* home, dashboard and student_list views call it).
Reclaim ==
  /\ sheet' = AutoClose(sheet, now)
  /\ resp' = [NoResp EXCEPT !.op = "reclaim", !.code = "ok", !.status = 200,
              !.closed = Cardinality(StaleRows(sheet, now)),
              !.prev = IF resp.op = "reclaim" /\ resp.code = "ok"
                       THEN resp.closed ELSE -1]
  /\ UNCHANGED <<now, req, served, env>>

\* GET /?name=First Last: the reclaimer runs, then used_passes is rendered.
Home(student) ==
  LET first == student[1]
      last == student[2]
      after == AutoClose(sheet, now)
  IN /\ sheet' = after
     /\ resp' = [NoResp EXCEPT !.op = "home", !.fn = first, !.ln = last,
                 !.code = "ok", !.status = 200,
                 !.closed = Cardinality(StaleRows(sheet, now)),
                 !.used = passes_this_quarter(after, first, last, now)]
     /\ UNCHANGED <<now, req, served, env>>

\* get_current_quarter()
get_current_quarter(t) == active_quarter_dt(t).name

\* GET /student_list (logged in): the reclaimer runs, then current_quarter
\* is rendered.
StudentList ==
  /\ sheet' = AutoClose(sheet, now)
  /\ resp' = [NoResp EXCEPT !.op = "student_list", !.code = "ok", !.status = 200,
              !.closed = Cardinality(StaleRows(sheet, now)),
              !.quarter = get_current_quarter(now)]
  /\ UNCHANGED <<now, req, served, env>>

Next ==
  \/ Tick
  \/ \E form \in Forms : SignOut(form)
  \/ \E student \in SignInNames : SignIn(student)
  \/ Reclaim

Spec == Init /\ [][Next]_vars

\* ------------------------------------------------- any worksheet, any time
\* The worksheet is shared with its owners, who edit it by hand: a request
\* can meet any rows, at any time of the school calendar.  Each behaviour
\* handles one request on such a worksheet.
MaxSeedRows == 2

SeedNames == { <<"Dana", "Lee">>, <<"dana", "lee">> }
SeedStamps ==
  { QUARTERS[1].start, QUARTERS[1].end, QUARTERS[2].start, QUARTERS[2].end, MALFORMED }
\* Rows with both time cells filled in some way, and rows with names only.
SeedRows ==
  { [fn |-> n[1], ln |-> n[2], tout |-> o, tin |-> i] :
      n \in SeedNames, o \in SeedStamps, i \in {EMPTY, QUARTERS[2].start, NAN_TEXT} }
  \cup { [fn |-> n[1], ln |-> n[2], tout |-> EMPTY, tin |-> EMPTY] : n \in SeedNames }
SeedSheets == UNION { [1..k -> SeedRows] : k \in 0..MaxSeedRows }
SeedClock == (QUARTERS[1].start - 1) .. QUARTERS[Len(QUARTERS)].end

InitSeeded ==
  /\ sheet \in SeedSheets
  /\ now \in SeedClock
  /\ resp = NoResp
  /\ req = [w \in Workers |-> Idle]
  /\ served = 0
  /\ env = DefaultEnv

SeededSignOut == resp.op = "none" /\ \E form \in Forms : SignOut(form)
SeededSignIn == resp.op = "none" /\ \E student \in SignInNames : SignIn(student)
SeededHome == resp.op = "none" /\ \E student \in Students : Home(student)
SeededReclaim == resp.op = "none" /\ Reclaim
SeededStudentList == resp.op = "none" /\ StudentList

NextSeeded ==
  \/ SeededSignOut
  \/ SeededSignIn
  \/ SeededHome
  \/ SeededReclaim
  \/ SeededStudentList

SpecSeeded == InitSeeded /\ [][NextSeeded]_vars

\* ------------------------------------------------- requests side by side
\* Each handler runs on a worker; every access to the sheet (get_all_records,
\* get_all_values, append_row, update_cell) is one step, and the steps of the
\* workers interleave with each other and with the clock.
Answer(op, first, last, code, status, row, closed) ==
  [NoResp EXCEPT !.op = op, !.fn = first, !.ln = last, !.code = code,
                 !.status = status, !.row = row, !.closed = closed]

\* signout, lines 410-431: read the form, stamp time_out, validate the names.
SignOutStart(w, form) ==
  LET first_name == Strip(form[1])
      last_name == Strip(form[2])
  IN /\ Takes(w)
     /\ IF first_name = "" \/ last_name = ""
        THEN /\ resp' = Answer("signout", first_name, last_name, "name_required", 400, 0, 0)
             /\ UNCHANGED req
        ELSE /\ req' = [req EXCEPT ![w] =
                         [Idle EXCEPT !.pc = "so_capacity", !.first_name = first_name,
                                      !.last_name = last_name,
                                      !.time_out = now_str(now)]]
             /\ UNCHANGED resp
     /\ UNCHANGED <<sheet, now, env>>

\* A sign-out request taken up within the budget of requests.
SignOutBegin(w, form) ==
  /\ served < MaxRequests
  /\ served' = served + 1
  /\ SignOutStart(w, form)

\* signout_checks, lines 36-53: the quarter state, then read_passes() and the
\* capacity check.
SignOutCapacity(w) ==
  /\ req[w].pc = "so_capacity"
  /\ req' = [req EXCEPT ![w].pc = "so_limit",
                        ![w].qname = active_quarter_dt(now).name,
                        ![w].problems = NoQuarterIssue(now) \o CapacityIssue(sheet)]
  /\ UNCHANGED <<sheet, now, resp, served, env>>

\* signout_checks, lines 55-64, and signout, lines 456-466: passes_this_quarter
\* reads the sheet again; the first problem, if any, is the answer.
SignOutLimit(w) ==
  LET me == req[w]
      used == passes_this_quarter(sheet, me.first_name, me.last_name, now)
      problems == me.problems \o
                    (IF me.qname # "Unknown" /\ used >= MAX_QUARTER_PASSES
                     THEN <<"limit_reached">> ELSE <<>>)
  IN /\ me.pc = "so_limit"
     /\ IF problems # <<>>
        THEN /\ resp' = Answer("signout", me.first_name, me.last_name,
                               Head(problems), StatusOf(Head(problems)), 0, 0)
             /\ req' = [req EXCEPT ![w] = Idle]
        ELSE /\ req' = [req EXCEPT ![w].pc = "so_open"]
             /\ UNCHANGED resp
     /\ UNCHANGED <<sheet, now, served, env>>

\* signout, lines 488-496: student_has_open_pass reads the sheet.
SignOutOpenPass(w) ==
  LET me == req[w] IN
  /\ me.pc = "so_open"
  /\ IF student_has_open_pass(sheet, me.first_name, me.last_name)
     THEN /\ resp' = Answer("signout", me.first_name, me.last_name,
                            "already_out", StatusOf("already_out"), 0, 0)
          /\ req' = [req EXCEPT ![w] = Idle]
     ELSE /\ req' = [req EXCEPT ![w].pc = "so_recent"]
          /\ UNCHANGED resp
  /\ UNCHANGED <<sheet, now, served, env>>

\* signout, lines 498-505: recent_signout_exists reads the sheet.
SignOutRecent(w) ==
  LET me == req[w] IN
  /\ me.pc = "so_recent"
  /\ IF recent_signout_exists(sheet, me.first_name, me.last_name, now)
     THEN /\ resp' = Answer("signout", me.first_name, me.last_name,
                            "duplicate_click", StatusOf("duplicate_click"), 0, 0)
          /\ req' = [req EXCEPT ![w] = Idle]
     ELSE /\ req' = [req EXCEPT ![w].pc = "so_write"]
          /\ UNCHANGED resp
  /\ UNCHANGED <<sheet, now, served, env>>

\* signout, lines 507-522: write_pass(entry) and the redirect.
SignOutWrite(w) ==
  LET me == req[w] IN
  /\ me.pc = "so_write"
  /\ Len(sheet) < MaxRows
  /\ sheet' = write_pass(sheet, Entry(me.first_name, me.last_name, me.time_out))
  /\ resp' = Answer("signout", me.first_name, me.last_name, "ok", StatusOf("ok"),
                    Len(sheet') + 1, 0)
  /\ req' = [req EXCEPT ![w] = Idle]
  /\ UNCHANGED <<now, served, env>>

\* signin, lines 536-572 up to the match: get_all_records() and the scan.
SignInLookup(w, student) ==
  LET idx == SigninTarget(sheet, student[1], student[2]) IN
  /\ Takes(w)
  /\ IF idx = 0
     THEN /\ resp' = Answer("signin", student[1], student[2], "not_found", 404, 0, 0)
          /\ UNCHANGED req
     ELSE /\ req' = [req EXCEPT ![w] =
                      [Idle EXCEPT !.pc = "si_write", !.first_name = student[1],
                                   !.last_name = student[2], !.idx = idx]]
          /\ UNCHANGED resp
  /\ UNCHANGED <<sheet, now, env>>

\* A sign-in request taken up within the budget of requests.
SignInRead(w, student) ==
  /\ served < MaxRequests
  /\ served' = served + 1
  /\ SignInLookup(w, student)

\* signin, lines 565-570: update_cell on the row found.
SignInWrite(w) ==
  LET me == req[w] IN
  /\ me.pc = "si_write"
  /\ sheet' = update_cell(sheet, me.idx, now_str(now))
  /\ resp' = Answer("signin", me.first_name, me.last_name, "ok", 200, me.idx, 0)
  /\ req' = [req EXCEPT ![w] = Idle]
  /\ UNCHANGED <<now, served, env>>

\* auto_close_stale_passes, lines 339-352: get_all_values().
ReclaimRead(w) ==
  /\ Takes(w)
  /\ served < MaxRequests
  /\ served' = served + 1
  /\ req' = [req EXCEPT ![w] = [Idle EXCEPT !.pc = "rc_scan", !.rows = sheet, !.r = 2]]
  /\ UNCHANGED <<sheet, now, resp, env>>

\* auto_close_stale_passes, lines 354-373: one turn of the loop over the
\* snapshot, the clock read at that turn; after the last row, the return.
ReclaimRow(w) ==
  LET me == req[w] IN
  /\ me.pc = "rc_scan"
  /\ IF me.r - 1 > Len(me.rows)
     THEN /\ resp' = Answer("reclaim", "", "", "ok", 200, 0, me.closed)
          /\ req' = [req EXCEPT ![w] = Idle]
          /\ UNCHANGED sheet
     ELSE /\ IF IsStale(me.rows[me.r - 1], now)
             THEN /\ sheet' = update_cell(sheet, me.r, now_str(now))
                  /\ req' = [req EXCEPT ![w].r = me.r + 1, ![w].closed = me.closed + 1]
             ELSE /\ req' = [req EXCEPT ![w].r = me.r + 1]
                  /\ UNCHANGED sheet
          /\ UNCHANGED resp
  /\ UNCHANGED <<now, served, env>>

NextConc ==
  \/ Tick
  \/ \E w \in Workers, form \in Forms : SignOutBegin(w, form)
  \/ \E w \in Workers : SignOutCapacity(w)
  \/ \E w \in Workers : SignOutLimit(w)
  \/ \E w \in Workers : SignOutOpenPass(w)
  \/ \E w \in Workers : SignOutRecent(w)
  \/ \E w \in Workers : SignOutWrite(w)
  \/ \E w \in Workers, student \in SignInNames : SignInRead(w, student)
  \/ \E w \in Workers : SignInWrite(w)
  \/ \E w \in Workers : ReclaimRead(w)
  \/ \E w \in Workers : ReclaimRow(w)

SpecConc == Init /\ [][NextConc]_vars

\* ------------------------------------------------- one student, the calendar
\* The quarterly limit at work: the sign-outs and sign-ins of one student, on
\* the two workers and step by step as above, from the empty worksheet, while
\* the clock runs through the quarter table and past its end.  The reclaimer
\* is left out: it writes Time In only, as sign-in does.
LimitForms == {form \in Forms : Lower(Strip(form[1])) = "dana"}
LimitNames == {student \in SignInNames : Lower(Strip(student[1])) = "dana"}

\* Requests enough for the student to use up a quarter's passes, signing back
\* in each time, and to ask once more.
LimitRequests == 2 * MAX_QUARTER_PASSES + 1

CalendarTick ==
  /\ now < QUARTERS[Len(QUARTERS)].end
  /\ now' = now + 1
  /\ resp' = [NoResp EXCEPT !.op = resp.op]
  /\ UNCHANGED <<sheet, req, served, env>>

NextLimit ==
  \/ CalendarTick
  \/ \E w \in Workers, form \in LimitForms :
       served < LimitRequests /\ served' = served + 1 /\ SignOutStart(w, form)
  \/ \E w \in Workers : SignOutCapacity(w)
  \/ \E w \in Workers : SignOutLimit(w)
  \/ \E w \in Workers : SignOutOpenPass(w)
  \/ \E w \in Workers : SignOutRecent(w)
  \/ \E w \in Workers : SignOutWrite(w)
  \/ \E w \in Workers, student \in LimitNames :
       served < LimitRequests /\ served' = served + 1 /\ SignInLookup(w, student)
  \/ \E w \in Workers : SignInWrite(w)

SpecLimit == Init /\ [][NextLimit]_vars

\* ------------------------------------------------- the clock keeps going
\* The views that run the reclaimer keep being requested and the clock keeps
\* advancing.  The worksheet starts with a few open records, some with a
\* Time Out that does not parse (hand edits); requests are handled one at a
\* time, for one student.  Sign-outs are taken up to clock MaxClock, and the
\* clock runs on until every pass stamped by then is past the stale budget.
LiveHorizon == MaxClock + MAX_MINUTES + 1

LiveRows ==
  { row \in SeedRows : row.tin = EMPTY /\ row.tout \in {QUARTERS[1].start, MALFORMED} }
LiveSheets == UNION { [1..k -> LiveRows] : k \in 0..MaxSeedRows }

InitLive ==
  /\ sheet \in LiveSheets
  /\ now = QUARTERS[1].start
  /\ resp = NoResp
  /\ req = [w \in Workers |-> Idle]
  /\ served = 0
  /\ env = DefaultEnv

LiveTick ==
  /\ now < LiveHorizon
  /\ now' = now + 1
  /\ resp' = [NoResp EXCEPT !.op = resp.op]
  /\ UNCHANGED <<sheet, req, served, env>>

LiveSignOut == now <= MaxClock /\ \E form \in LimitForms : SignOut(form)
LiveSignIn == \E student \in LimitNames : SignIn(student)

NextLive ==
  \/ LiveTick
  \/ LiveSignOut
  \/ LiveSignIn
  \/ Reclaim

SpecLive ==
  InitLive /\ [][NextLive]_vars /\ WF_vars(LiveTick) /\ WF_vars(Reclaim)

\* ------------------------------------------------- store calls that fail
\* A call to the worksheet (get_all_records, get_all_values, row_values,
\* append_row, update_cell) can raise.  The requests are handled one at a
\* time; in a faulty request the k-th store call of the handler raises.

\* The store calls signout makes, in order, on the way to its answer.
SignoutCalls(passes, first_name, last_name, t) ==
  LET code == SignoutCode(passes, first_name, last_name, t)
      checks == <<"read">> \o
                (IF active_quarter_dt(t).name # "Unknown" THEN <<"read">> ELSE <<>>)
  IN CASE code = "name_required" -> <<>>
       [] code \in {"no_quarter", "capacity", "limit_reached"} -> checks
       [] code = "already_out" -> checks \o <<"read">>
       [] code = "duplicate_click" -> checks \o <<"read", "read">>
       [] OTHER -> checks \o <<"read", "read", "write">>

\* POST /signout whose k-th store call raises: only the write is inside a
\* try (lines 519-533), an exception of a read leaves the view.
FaultySignOut(form) ==
  LET first_name == Strip(form[1])
      last_name == Strip(form[2])
      calls == SignoutCalls(sheet, first_name, last_name, now)
  IN \E k \in 1..Len(calls) :
     /\ resp' = [NoResp EXCEPT !.op = "signout", !.fn = first_name, !.ln = last_name,
                 !.fault = calls[k],
                 !.code = IF calls[k] = "write" THEN "write_failed" ELSE "unhandled",
                 !.status = IF calls[k] = "write" THEN 502 ELSE 500]
     /\ UNCHANGED <<sheet, now, req, served, env>>

\* The store calls signin makes: get_all_records, row_values(1), and for a
\* match update_cell and the read of passes_this_quarter.
SigninCalls(records, first_name, last_name) ==
  <<"read", "read">> \o
  (IF SigninTarget(records, first_name, last_name) # 0 THEN <<"write", "read">> ELSE <<>>)

\* POST /signin whose k-th store call raises: signin has no try around its
\* store calls.  When the read after the update raises, the cell is written.
FaultySignIn(student) ==
  LET first_name == student[1]
      last_name == student[2]
      calls == SigninCalls(sheet, first_name, last_name)
      idx == SigninTarget(sheet, first_name, last_name)
  IN \E k \in 1..Len(calls) :
     /\ sheet' = IF k = 4 THEN update_cell(sheet, idx, now_str(now)) ELSE sheet
     /\ resp' = [NoResp EXCEPT !.op = "signin", !.fn = first_name, !.ln = last_name,
                 !.fault = calls[k], !.code = "unhandled", !.status = 500,
                 !.row = IF k = 4 THEN idx ELSE 0]
     /\ UNCHANGED <<now, req, served, env>>

\* The sheet when the k-th store call of a run raises: the stale rows
\* reached by the update_cell calls before it are closed.
AutoCloseBefore(rows, t, k) ==
  LET stale == StaleRows(rows, t) IN
  [i \in 1..Len(rows) |->
     IF (i + 1) \in stale /\ Cardinality({r \in stale : r < i + 1}) < k - 2
     THEN [rows[i] EXCEPT !.tin = now_str(t)] ELSE rows[i]]

\* auto_close_stale_passes() whose k-th store call raises: get_all_values
\* for k = 1, else the (k-1)-th update_cell.  The except clause of line 374
\* returns 0; the updates made before stay.
FaultyReclaim ==
  \E k \in 1..(1 + Cardinality(StaleRows(sheet, now))) :
  /\ sheet' = AutoCloseBefore(sheet, now, k)
  /\ resp' = [NoResp EXCEPT !.op = "reclaim", !.code = "ok", !.status = 200,
              !.closed = 0, !.fault = IF k = 1 THEN "read" ELSE "write"]
  /\ UNCHANGED <<now, req, served, env>>

NextFaulty ==
  \/ Next
  \/ \E form \in Forms : FaultySignOut(form)
  \/ \E student \in SignInNames : FaultySignIn(student)
  \/ FaultyReclaim

SpecFaulty == Init /\ [][NextFaulty]_vars

\* ------------------------------------------------- the PIN feature
\* Deployments with the PIN feature off or on, and a Roster tab of a few
\* rows (columns First Name, Last Name, PIN, Active).
MaxRosterRows == 1

RosterRows ==
  { [fn |-> "Dana", ln |-> "Lee", pin |-> <<"1", "2", "3">>, active |-> ""],
    [fn |-> "Dana", ln |-> "Lee", pin |-> <<"0", "1", "2", "3">>, active |-> "n"],
    [fn |-> "Bo", ln |-> "Lee", pin |-> <<"4", "5", "6", "7">>, active |-> "Y"],
    [fn |-> "Cy", ln |-> "Orr", pin |-> <<>>, active |-> "Y"] }

Envs ==
  { [ENABLE_STUDENT_PIN |-> f, roster |-> tab] :
      f \in {0, 1}, tab \in UNION { [1..k -> RosterRows] : k \in 0..MaxRosterRows } }

\* PINs as typed into the form.
PinInputs ==
  { <<>>, <<" ">>, <<"1", "2", "3">>, <<"0", "1", "2", "3">>,
    <<"9", "9", "0", "1", "2", "3">>, <<"1", "2", "3", ".", "0">>,
    <<"a", "b">>, <<"4", "5", "6", "7">> }

\* The outcome code of the sign-out route with its PIN block (lines 433-450).
SignoutCodePin(e, passes, first_name, last_name, pin, t) ==
  IF first_name = "" \/ last_name = "" THEN "name_required"
  ELSE IF e.ENABLE_STUDENT_PIN # 0 /\ pin = <<>> THEN "pin_required"
  ELSE IF e.ENABLE_STUDENT_PIN # 0 /\ ~check_student_pin(e, first_name, last_name, pin)
    THEN "pin_mismatch"
  ELSE SignoutCode(passes, first_name, last_name, t)

StatusOfPin(code) ==
  CASE code = "pin_required" -> 400
    [] code = "pin_mismatch" -> 403
    [] OTHER -> StatusOf(code)

\* POST /signout with a pin field, in a deployment that may have the PIN
\* feature on.
PinSignOut(form, typed) ==
  LET first_name == Strip(form[1])
      last_name == Strip(form[2])
      pin == StripChars(typed)
      time_out == now_str(now)
      code == SignoutCodePin(env, sheet, first_name, last_name, pin, now)
  IN /\ code = "ok" => Len(sheet) < MaxRows
     /\ sheet' = IF code = "ok"
                 THEN write_pass(sheet, Entry(first_name, last_name, time_out))
                 ELSE sheet
     /\ resp' = [NoResp EXCEPT !.op = "signout", !.fn = first_name,
                 !.ln = last_name, !.code = code, !.status = StatusOfPin(code),
                 !.row = IF code = "ok" THEN Len(sheet) + 2 ELSE 0,
                 !.pin = pin]
     /\ UNCHANGED <<now, req, served, env>>

InitPin ==
  /\ sheet = <<>>
  /\ now = QUARTERS[1].start
  /\ resp = NoResp
  /\ req = [w \in Workers |-> Idle]
  /\ served = 0
  /\ env \in Envs

NextPin == \E form \in Forms, typed \in PinInputs : PinSignOut(form, typed)

SpecPin == InitPin /\ [][NextPin]_vars

\* ------------------------------------------------------------ properties
\* Vocabulary of the properties, stated on the rows themselves.
IsOpen(row) == row.tin = EMPTY
OpenCount(rows) == Cardinality({i \in 1..Len(rows) : IsOpen(rows[i])})
Matches(row, fn, ln) ==
  Lower(Strip(row.fn)) = Lower(Strip(fn)) /\ Lower(Strip(row.ln)) = Lower(Strip(ln))
RowsOf(rows, fn, ln) == {i \in 1..Len(rows) : Matches(rows[i], fn, ln)}
\* The student's rows stamped inside [lo, hi).
RowsIn(rows, fn, ln, lo, hi) ==
  {i \in RowsOf(rows, fn, ln) : rows[i].tout >= 0 /\ lo <= rows[i].tout /\ rows[i].tout < hi}
\* This step is a sign-out request answered at the current clock reading.
SignOutStep == resp'.op = "signout" /\ resp'.code # "" /\ now' = now

\* C1: processing sign-out, sign-in and stale-reclaim requests one at a time
\* from an empty store, the number of records with empty timeIn never exceeds
\* HALL_LIMIT.
C1_OpenWithinLimit == OpenCount(sheet) <= HALL_LIMIT

\* HALL_LIMIT records are open and a further sign-out has just been refused.
C1_Witness ==
  /\ OpenCount(sheet) = HALL_LIMIT
  /\ resp.op = "signout" /\ resp.code = "capacity"

\* C3: in an active quarter with no other check failing, the sign-out of a
\* student with MAX_QUARTER_PASSES - 1 records in the quarter is accepted and
\* appends the record; with MAX_QUARTER_PASSES records in the quarter it is
\* rejected with limit_reached and the store is unchanged.
C3_QuarterLimit ==
  [][ (SignOutStep /\ resp'.fn # "" /\ resp'.ln # "") =>
      LET fn == resp'.fn
          ln == resp'.ln
          q == active_quarter_dt(now)
          used == Cardinality(RowsIn(sheet, fn, ln, q.start, q.end))
          roomy == q.name # "Unknown" /\ OpenCount(sheet) < HALL_LIMIT
          idle == \A i \in RowsOf(sheet, fn, ln) :
                    ~IsOpen(sheet[i]) /\ now - sheet[i].tout > WINDOW_SECONDS
      IN /\ (roomy /\ idle /\ used = MAX_QUARTER_PASSES - 1) =>
              /\ resp'.code = "ok"
              /\ sheet' = Append(sheet, [fn |-> fn, ln |-> ln, tout |-> now, tin |-> EMPTY])
         /\ (roomy /\ used = MAX_QUARTER_PASSES) =>
              /\ resp'.code = "limit_reached"
              /\ sheet' = sheet
    ]_vars

\* The student holds MAX_QUARTER_PASSES records in the active quarter and the
\* next sign-out has just been rejected with limit_reached.
C3_Witness ==
  /\ resp.op = "signout" /\ resp.code = "limit_reached"
  /\ LET q == active_quarter_dt(now) IN
       Cardinality(RowsIn(sheet, resp.fn, resp.ln, q.start, q.end)) = MAX_QUARTER_PASSES

\* The checks in the order no_quarter, capacity, limit_reached, already_out,
\* duplicate_click, each stated on the rows; "ok" when none fails.
FirstFailing(rows, fn, ln, t) ==
  LET q == active_quarter_dt(t) IN
  IF q.name = "Unknown" THEN "no_quarter"
  ELSE IF OpenCount(rows) >= HALL_LIMIT THEN "capacity"
  ELSE IF Cardinality(RowsIn(rows, fn, ln, q.start, q.end)) >= MAX_QUARTER_PASSES
    THEN "limit_reached"
  ELSE IF \E i \in RowsOf(rows, fn, ln) : IsOpen(rows[i]) /\ rows[i].tout # EMPTY
    THEN "already_out"
  ELSE IF \E i \in RowsOf(rows, fn, ln) :
            rows[i].tout >= 0 /\ t - rows[i].tout <= WINDOW_SECONDS
    THEN "duplicate_click"
  ELSE "ok"

\* The worksheet as the answered sign-out found it.
SheetBefore == IF resp.code = "ok" THEN SubSeq(sheet, 1, Len(sheet) - 1) ELSE sheet

\* C6: on any worksheet and for any student, a sign-out with both names
\* given reports the first failing check in the order no_quarter, capacity,
\* limit_reached, already_out, duplicate_click, and is accepted only when
\* none fails.
C6_FirstFailingCheck ==
  (resp.op = "signout" /\ resp.code \notin {"", "name_required"}) =>
    resp.code = FirstFailing(SheetBefore, resp.fn, resp.ln, now)

\* A student who already has an open pass is refused at a full hall with
\* capacity.
C6_Witness ==
  /\ resp.op = "signout" /\ resp.code = "capacity"
  /\ \E i \in RowsOf(sheet, resp.fn, resp.ln) : IsOpen(sheet[i]) /\ sheet[i].tout >= 0

\* C7: whenever at least HALL_LIMIT records have empty timeIn, a sign-out is
\* rejected and appends no record, whoever the student is.
C7_FullHallRejects ==
  [][ (SignOutStep /\ OpenCount(sheet) >= HALL_LIMIT) =>
      (resp'.code # "ok" /\ resp'.status # 302 /\ sheet' = sheet) ]_vars

\* A student with no record at all has just been refused at a full hall.
C7_Witness ==
  /\ resp.op = "signout" /\ resp.code = "capacity"
  /\ OpenCount(sheet) >= HALL_LIMIT
  /\ RowsOf(sheet, resp.fn, resp.ln) = {}

\* C8: the count rendered for a student is the number of the student's
\* records whose timeOut t satisfies start <= t < end for the quarter
\* active_quarter_dt returns: a record at exactly start counts, a record at
\* exactly end does not, records of other quarters do not, and the count is
\* 0 when no quarter is active.
C8_QuarterWindowCount ==
  resp.op = "home" =>
    LET q == active_quarter_dt(now) IN
    resp.used = IF q.name = "Unknown" THEN 0
                ELSE Cardinality(RowsIn(sheet, resp.fn, resp.ln, q.start, q.end))

\* The student has a record at exactly the start of the active quarter and
\* one at exactly its end, and the count rendered is 1.
C8_Witness ==
  /\ resp.op = "home" /\ resp.used = 1
  /\ LET q == active_quarter_dt(now) IN
       /\ \E i \in RowsOf(sheet, resp.fn, resp.ln) : sheet[i].tout = q.start
       /\ \E i \in RowsOf(sheet, resp.fn, resp.ln) : sheet[i].tout = q.end

\* This step is a run of the reclaimer answered at the current clock reading.
ReclaimStep == resp'.op = "reclaim" /\ resp'.code = "ok" /\ now' = now

\* C9: a stale-reclaim run sets timeIn (to the current time) on every open
\* record whose timeOut is more than MAX_MINUTES before the current time and
\* leaves every other record, open or closed, unchanged.
C9_ReclaimClosesStale ==
  [][ ReclaimStep =>
      /\ Len(sheet') = Len(sheet)
      /\ \A i \in 1..Len(sheet) :
           IF IsOpen(sheet[i]) /\ sheet[i].tout >= 0 /\ now - sheet[i].tout > MAX_MINUTES
           THEN sheet'[i] = [sheet[i] EXCEPT !.tin = now]
           ELSE sheet'[i] = sheet[i]
    ]_vars

\* A run has just closed a stale record while a newer open record and a
\* record closed earlier are in the store.
C9_Witness ==
  /\ resp.op = "reclaim" /\ resp.code = "ok" /\ resp.closed >= 1
  /\ \E i \in 1..Len(sheet) : sheet[i].tin = now /\ now - sheet[i].tout > MAX_MINUTES
  /\ \E i \in 1..Len(sheet) : IsOpen(sheet[i]) /\ now - sheet[i].tout <= MAX_MINUTES
  /\ \E i \in 1..Len(sheet) : sheet[i].tin >= 0 /\ sheet[i].tin < now

\* C10 as stated: a run of the reclaimer whose previous request was a run of
\* the reclaimer (no sign-out or sign-in in between) returns 0 and leaves the
\* store unchanged.
C10_SecondRunClosesNone ==
  [][ (resp.op = "reclaim" /\ ReclaimStep) =>
      (resp'.closed = 0 /\ sheet' = sheet) ]_vars

\* C10 amended: a run of the reclaimer directly after a run at the same
\* clock reading returns 0 and leaves the store unchanged.
C10_SecondRunSameClock ==
  [][ (resp.op = "reclaim" /\ resp.code = "ok" /\ ReclaimStep) =>
      (resp'.closed = 0 /\ sheet' = sheet) ]_vars

\* A run that closed a record was followed at once by a run that returned 0.
C10_Witness ==
  resp.op = "reclaim" /\ resp.code = "ok" /\ resp.prev >= 1 /\ resp.closed = 0

\* ---- interleaved requests
SignOutCapacityStep(w) == req[w].pc = "so_capacity" /\ req'[w].pc = "so_limit"
SignOutWriteStep(w) == req[w].pc = "so_write" /\ req'[w].pc = "idle"
SignInReadStep(w) == req[w].pc = "idle" /\ req'[w].pc = "si_write"

\* C2: a sign-out judges capacity on the sheet as it reads it, and once its
\* checks have passed it appends its record whatever the sheet has become in
\* the meantime; so two sign-outs that both read HALL_LIMIT-1 open records both
\* append, and more than HALL_LIMIT records are open (C2_Witness).
C2_ChecksThenAppends ==
  [][\A w \in Workers :
       /\ SignOutCapacityStep(w) =>
            ((\E k \in 1..Len(req'[w].problems) : req'[w].problems[k] = "capacity")
               <=> (OpenCount(sheet) >= HALL_LIMIT))
       /\ SignOutWriteStep(w) =>
            sheet' = Append(sheet, [fn |-> req[w].first_name, ln |-> req[w].last_name,
                                    tout |-> req[w].time_out, tin |-> EMPTY])]_vars

C2_Witness ==
  /\ OpenCount(sheet) > HALL_LIMIT
  /\ resp.op = "signout" /\ resp.code = "ok"

OpenRowsOf(rows, first, last) ==
  {i \in 1..Len(rows) : SameStudent(rows[i], first, last) /\ is_time_in_empty(rows[i])}

\* C4: when a student has two or more open records, the sign-in picks the one
\* inserted last (the highest sheet row) to set Time In on.
C4_ClosesNewestOpen ==
  [][\A w \in Workers :
       (SignInReadStep(w) /\
        Cardinality(OpenRowsOf(sheet, req'[w].first_name, req'[w].last_name)) >= 2)
       => \A i \in OpenRowsOf(sheet, req'[w].first_name, req'[w].last_name) :
            i + 1 <= req'[w].idx]_vars

\* C5: under any interleaving of sign-in and reclaim requests, no step changes
\* a Time In that is not empty.
C5_TimeInNeverRewritten ==
  [][\A i \in 1..Len(sheet) : sheet[i].tin # EMPTY => sheet'[i].tin = sheet[i].tin]_vars

\* C11: over any sequence of sign-out, sign-in and reclaim requests the store
\* is append-only: no record is removed or reordered; only an accepted
\* sign-out adds a record, one, at the end, with timeOut = now and empty
\* timeIn; and no request changes a field other than timeIn.
C11_AppendOnly ==
  [][ /\ Len(sheet') >= Len(sheet)
      /\ \A i \in 1..Len(sheet) :
           /\ sheet'[i].fn = sheet[i].fn
           /\ sheet'[i].ln = sheet[i].ln
           /\ sheet'[i].tout = sheet[i].tout
      /\ Len(sheet') > Len(sheet) =>
           /\ resp'.op = "signout" /\ resp'.code = "ok"
           /\ Len(sheet') = Len(sheet) + 1
           /\ sheet'[Len(sheet')] =
                [fn |-> resp'.fn, ln |-> resp'.ln, tout |-> now, tin |-> EMPTY]
           /\ \A i \in 1..Len(sheet) : sheet'[i] = sheet[i]
      /\ (resp'.op = "signout" /\ resp'.code # "ok") => sheet' = sheet
    ]_vars

\* Two records are in the store, a sign-in has just closed one of them, and
\* the other was closed at an earlier clock reading.
C11_Witness ==
  /\ Len(sheet) >= 2
  /\ resp.op = "signin" /\ resp.code = "ok"
  /\ sheet[resp.row - 1].tin = now
  /\ \E i \in 1..Len(sheet) : sheet[i].tin # EMPTY /\ sheet[i].tin < now

\* The configured intervals that contain instant t.
QuartersAt(t) == {i \in 1..Len(QUARTERS) : QUARTERS[i].start <= t /\ t < QUARTERS[i].end}

\* C12 as stated: the active quarter is the single configured interval that
\* contains the instant, and Unknown for every instant outside all of them
\* (before the first start, in a gap, at or after the last end).
C12_UnknownOutsideIntervals ==
  resp.op = "student_list" =>
    /\ Cardinality(QuartersAt(now)) <= 1
    /\ \A i \in QuartersAt(now) : resp.quarter = QUARTERS[i].name
    /\ QuartersAt(now) = {} => resp.quarter = "Unknown"

\* C12 (amended): the active quarter is the single configured interval that
\* contains the instant; before the first start it is the first quarter, at
\* or after the last end it is the last quarter, and only in a gap between
\* two quarters it is Unknown.
C12_ClampedOutsideIntervals ==
  resp.op = "student_list" =>
    /\ Cardinality(QuartersAt(now)) <= 1
    /\ \A i \in QuartersAt(now) : resp.quarter = QUARTERS[i].name
    /\ QuartersAt(now) = {} =>
         resp.quarter =
           IF now < QUARTERS[1].start THEN QUARTERS[1].name
           ELSE IF now >= QUARTERS[Len(QUARTERS)].end THEN QUARTERS[Len(QUARTERS)].name
           ELSE "Unknown"

\* The quarter was asked for after the last configured end, and the last
\* quarter was reported.
C12_Witness ==
  /\ resp.op = "student_list"
  /\ now >= QUARTERS[Len(QUARTERS)].end
  /\ resp.quarter = QUARTERS[Len(QUARTERS)].name

\* This step is a sign-in request.
SignInStep == resp.op = "none" /\ resp'.op = "signin"

\* C13 as stated: sign-in for a student who has no record with empty timeIn
\* returns NotFound (404) and leaves every record unchanged.
C13_NotFoundWithoutEmptyTimeIn ==
  [][ (SignInStep /\ \A i \in RowsOf(sheet, resp'.fn, resp'.ln) : sheet[i].tin # EMPTY)
      => (resp'.status = 404 /\ sheet' = sheet) ]_vars

\* C13 (amended): sign-in for a student who has no record whose timeIn is
\* empty or holds the text "none" or "nan" returns NotFound (404) and leaves
\* every record unchanged.
C13_NotFoundWithoutOpenRecord ==
  [][ (SignInStep /\ \A i \in RowsOf(sheet, resp'.fn, resp'.ln) :
                       sheet[i].tin # EMPTY /\ sheet[i].tin # NAN_TEXT)
      => (resp'.status = 404 /\ sheet' = sheet) ]_vars

\* A student whose records all carry a Time In stamp was answered 404.
C13_Witness ==
  /\ resp.op = "signin" /\ resp.status = 404
  /\ RowsOf(sheet, resp.fn, resp.ln) # {}
  /\ \A i \in RowsOf(sheet, resp.fn, resp.ln) : sheet[i].tin >= 0

\* C14: after a sign-out was rejected with capacity because HALL_LIMIT
\* records were open, a sign-in that closes one of them makes the same
\* student's next sign-out accepted, provided the quarter is active and the
\* student is under the quarterly limit and has no open or recent pass.
C14_SignInFreesASlot ==
  [][ (SignOutStep /\ resp'.fn # "" /\ resp'.ln # ""
       /\ resp.op = "signin" /\ resp.code = "ok"
       /\ OpenCount(sheet) = HALL_LIMIT - 1) =>
      LET fn == resp'.fn
          ln == resp'.ln
          q == active_quarter_dt(now)
          used == Cardinality(RowsIn(sheet, fn, ln, q.start, q.end))
          idle == \A i \in RowsOf(sheet, fn, ln) :
                    ~IsOpen(sheet[i]) /\ now - sheet[i].tout > WINDOW_SECONDS
      IN (q.name # "Unknown" /\ used < MAX_QUARTER_PASSES /\ idle) =>
           /\ resp'.code = "ok"
           /\ sheet' = Append(sheet, [fn |-> fn, ln |-> ln, tout |-> now, tin |-> EMPTY])
    ]_vars

\* The student refused for capacity signed out again right after another
\* student's sign-in and was accepted; the hall is full again.
C14_Witness ==
  /\ resp.op = "signout" /\ resp.code = "ok" /\ resp.retry
  /\ OpenCount(sheet) = HALL_LIMIT

\* This step is the sign-out request of a seeded behaviour, names given.
SeededSignOutStep == resp.op = "none" /\ resp'.op = "signout" /\ resp'.fn # "" /\ resp'.ln # ""

\* C15: a sign-out for a student who already has an open record (timeOut
\* set, timeIn empty; names compared case-insensitively and trimmed), with
\* the quarter, capacity and quarterly-limit checks passing, is rejected
\* with already_out and appends no record.
C15_AlreadyOut ==
  [][ SeededSignOutStep =>
      LET fn == resp'.fn
          ln == resp'.ln
          q == active_quarter_dt(now)
          earlier == /\ q.name # "Unknown"
                     /\ OpenCount(sheet) < HALL_LIMIT
                     /\ Cardinality(RowsIn(sheet, fn, ln, q.start, q.end)) < MAX_QUARTER_PASSES
          out == \E i \in RowsOf(sheet, fn, ln) :
                   sheet[i].tout # EMPTY /\ sheet[i].tin = EMPTY
      IN (earlier /\ out) =>
           (resp'.code = "already_out" /\ resp'.status = 409 /\ sheet' = sheet)
    ]_vars

\* "Dana Lee" was refused with already_out on a worksheet whose open record
\* is under the name "dana lee".
C15_Witness ==
  /\ resp.op = "signout" /\ resp.code = "already_out"
  /\ resp.fn = "Dana"
  /\ \E i \in 1..Len(sheet) :
       sheet[i].fn = "dana" /\ sheet[i].tout # EMPTY /\ sheet[i].tin = EMPTY
  /\ \A i \in 1..Len(sheet) : sheet[i].fn = "Dana" => sheet[i].tin # EMPTY

\* The student's records stamped within the duplicate window before t, and
\* the student's stamped records altogether.
RecentRows(rows, fn, ln, t) ==
  {i \in RowsOf(rows, fn, ln) :
     rows[i].tout >= 0 /\ 0 <= t - rows[i].tout /\ t - rows[i].tout <= WINDOW_SECONDS}
StampedRows(rows, fn, ln) == {i \in RowsOf(rows, fn, ln) : rows[i].tout >= 0}

\* C16: a sign-out for a student who has any record with timeOut within the
\* last 20 seconds is never accepted: with no earlier check failing it is
\* rejected with duplicate_click, also after the student signed back in; and
\* once more than 20 seconds have passed since the student's latest timeOut
\* the sign-out is not rejected with duplicate_click.
C16_RecentDuplicate ==
  [][ (SignOutStep /\ resp'.fn # "" /\ resp'.ln # "") =>
      LET fn == resp'.fn
          ln == resp'.ln
          q == active_quarter_dt(now)
          earlier == /\ q.name # "Unknown"
                     /\ OpenCount(sheet) < HALL_LIMIT
                     /\ Cardinality(RowsIn(sheet, fn, ln, q.start, q.end)) < MAX_QUARTER_PASSES
                     /\ \A i \in RowsOf(sheet, fn, ln) : ~IsOpen(sheet[i])
      IN /\ RecentRows(sheet, fn, ln, now) # {} =>
              /\ resp'.code # "ok"
              /\ sheet' = sheet
              /\ earlier => (resp'.code = "duplicate_click" /\ resp'.status = 202)
         /\ (\A i \in StampedRows(sheet, fn, ln) : now - sheet[i].tout > WINDOW_SECONDS)
              => resp'.code # "duplicate_click"
    ]_vars

\* The student signed out and back in at this clock reading, and the next
\* sign-out was answered duplicate_click.
C16_Witness ==
  /\ resp.op = "signout" /\ resp.code = "duplicate_click"
  /\ \A i \in RowsOf(sheet, resp.fn, resp.ln) : sheet[i].tin # EMPTY
  /\ \E i \in RowsOf(sheet, resp.fn, resp.ln) : sheet[i].tout = now

\* C17: a reclaim run never raises: an open record whose timeOut does not
\* parse is left unchanged, and every other stale open record of the same
\* scan, before or after it, is still closed.
C17_MalformedSkipped ==
  [][ (resp.op = "none" /\ resp'.op = "reclaim") =>
      /\ resp'.code = "ok"
      /\ Len(sheet') = Len(sheet)
      /\ \A i \in 1..Len(sheet) :
           /\ (IsOpen(sheet[i]) /\ sheet[i].tout = MALFORMED) => sheet'[i] = sheet[i]
           /\ (IsOpen(sheet[i]) /\ sheet[i].tout >= 0 /\ now - sheet[i].tout > MAX_MINUTES)
                => sheet'[i] = [sheet[i] EXCEPT !.tin = now]
    ]_vars

\* The run met an open record with a malformed Time Out, left it open, and
\* closed a stale record further down the sheet.
C17_Witness ==
  /\ resp.op = "reclaim" /\ resp.closed >= 1
  /\ \E i, j \in 1..Len(sheet) :
       /\ i < j
       /\ sheet[i].tout = MALFORMED /\ sheet[i].tin = EMPTY
       /\ sheet[j].tout >= 0 /\ now - sheet[j].tout > MAX_MINUTES /\ sheet[j].tin = now

\* C18: a failure of any pass-store read or write during sign-out, sign-in
\* or reclaim is caught and ends the request with a user-facing failure
\* outcome, never with an unhandled exception.
C18_StoreFailureCaught == resp.fault # "" => resp.code # "unhandled"

\* The last four digits of the PINs of the model, zero-padded, written out.
LastFourPadded(pin) ==
  CASE pin = <<"1", "2", "3">> -> <<"0", "1", "2", "3">>
    [] pin = <<"0", "1", "2", "3">> -> <<"0", "1", "2", "3">>
    [] pin = <<"9", "9", "0", "1", "2", "3">> -> <<"0", "1", "2", "3">>
    [] pin = <<"1", "2", "3", ".", "0">> -> <<"1", "2", "3", "0">>
    [] pin = <<"4", "5", "6", "7">> -> <<"4", "5", "6", "7">>
    [] OTHER -> <<>>

\* The roster as loaded holds the student, marked active, with this PIN.
RosterHolds(tab, fn, ln, pin) ==
  LET rec == roster_get(tab, Lower(Strip(fn)), Lower(Strip(ln))) IN
  rec # NoEntry /\ rec.active /\ pin # <<>> /\ rec.pin = pin

RowsInQuarter(rows, fn, ln, i) == RowsIn(rows, fn, ln, QUARTERS[i].start, QUARTERS[i].end)

\* Every student has at most MAX_QUARTER_PASSES records in each configured
\* quarter.
WithinQuarterCap ==
  \A student \in Students, i \in 1..Len(QUARTERS) :
    Cardinality(RowsInQuarter(sheet, student[1], student[2], i)) <= MAX_QUARTER_PASSES

\* The requests are handled one at a time, each at one clock reading: at most
\* one worker is busy, and a sign-out in progress carries the stamp of the
\* current clock.
OneAtATime ==
  /\ Cardinality({w \in Workers : req[w].pc # "idle"}) <= 1
  /\ \A w \in Workers :
       req[w].pc \in {"so_capacity", "so_limit", "so_open", "so_recent", "so_write"}
         => req[w].time_out = now

OpenRecordsOf(rows, fn, ln) ==
  {i \in RowsOf(rows, fn, ln) : rows[i].tout # EMPTY /\ rows[i].tin = EMPTY}

\* C22: from the empty store, with the requests handled one at a time, no
\* student has more than one open record (timeOut set, timeIn empty) in any
\* reachable state.
C22_OneOpenRecordPerStudent ==
  \A student \in Students :
    Cardinality(OpenRecordsOf(sheet, student[1], student[2])) <= 1

\* A student whose one open record is older than the duplicate window, in a
\* hall with room and under the quarterly limit, asked for a second pass and
\* was refused with already_out.
C22_Witness ==
  /\ resp.op = "signout" /\ resp.code = "already_out"
  /\ Cardinality(OpenRecordsOf(sheet, resp.fn, resp.ln)) = 1
  /\ \A i \in OpenRecordsOf(sheet, resp.fn, resp.ln) : now - sheet[i].tout > WINDOW_SECONDS

\* C23: the clock never going back, every record whose timeIn is set, by a
\* sign-in or by the reclaimer, has timeIn >= timeOut, in every reachable
\* state and however the requests interleave.
C23_TimeInNotBeforeTimeOut ==
  \A i \in 1..Len(sheet) : sheet[i].tin # EMPTY => sheet[i].tin >= sheet[i].tout

\* A sign-in has closed a record at the very clock reading of its Time Out,
\* while a sign-out stamped at an earlier clock reading still waits to append.
C23_Witness ==
  /\ resp.op = "signin" /\ resp.code = "ok"
  /\ sheet[resp.row - 1].tin = now /\ sheet[resp.row - 1].tout = now
  /\ \E w \in Workers : req[w].pc = "so_write" /\ req[w].time_out < now

\* Row i is an open record with a Time Out that parses / that does not.
OpenWellFormed(i) == i <= Len(sheet) /\ sheet[i].tin = EMPTY /\ sheet[i].tout >= 0
OpenMalformed(i) == i <= Len(sheet) /\ sheet[i].tin = EMPTY /\ sheet[i].tout = MALFORMED
Closed(i) == i <= Len(sheet) /\ sheet[i].tin # EMPTY

\* C24: while the clock keeps advancing and the reclaimer keeps being run,
\* every open record with a well-formed timeOut is eventually closed; an open
\* record with a malformed timeOut is closed by a sign-in only, and as long as
\* it is open it takes a capacity slot: with HALL_LIMIT records open, such
\* records among them, a sign-out is refused and appends nothing.
C24_StaleEventuallyClosed ==
  /\ \A i \in 1..MaxRows : OpenWellFormed(i) ~> Closed(i)
  /\ [][ \A i \in 1..Len(sheet) :
           (OpenMalformed(i) /\ sheet'[i] # sheet[i]) =>
             /\ resp'.op = "signin" /\ resp'.code = "ok" /\ resp'.row = i + 1
             /\ sheet'[i] = [sheet[i] EXCEPT !.tin = now] ]_vars
  /\ [][ (SignOutStep /\ resp'.fn # "" /\ resp'.ln # ""
          /\ OpenCount(sheet) >= HALL_LIMIT /\ \E i \in 1..Len(sheet) : OpenMalformed(i))
         => (resp'.code \in {"no_quarter", "capacity"} /\ sheet' = sheet) ]_vars

\* The clock has run to the horizon and the reclaimer has just run: every
\* record with a well-formed Time Out is closed, one of them by the reclaimer,
\* and a record with a malformed Time Out is still open.
C24_Witness ==
  /\ now = LiveHorizon
  /\ resp.op = "reclaim" /\ resp.code = "ok"
  /\ \A i \in 1..Len(sheet) : sheet[i].tout >= 0 => sheet[i].tin # EMPTY
  /\ \E i \in 1..Len(sheet) : sheet[i].tout >= 0 /\ sheet[i].tin - sheet[i].tout > MAX_MINUTES
  /\ \E i \in 1..Len(sheet) : OpenMalformed(i)

====
